---------------------------- MODULE Spec2Model ----------------------------
(***************************************************************************)
(* Fixed-size buffer descriptors, the pool over a descriptor array and the *)
(* array context that slices one flat memory block (buffer.h / buffer.c).  *)
(*                                                                         *)
(* Addresses are naturals and NULL is 0.  There is one descriptor array,   *)
(* one memory block and one context object whose member pool_s is the one  *)
(* pool; &buffer_array_sa[i] is ArrayAddr + i and &memory_block[k] is      *)
(* BlockAddr + k.  Static storage starts zeroed.                           *)
(***************************************************************************)
EXTENDS Naturals, FiniteSets, Sequences, TLC

\* ------------------------------------------------------------------ bounds
\* Length of the caller's descriptor array (the largest buffer_count).
MaxCount == 2
\* Largest buffer_size / capacity_bytes a caller passes.
MaxSize == 2

\* ------------------------------------------------------------- addresses
NULL == 0
\* Address of the caller's descriptor array (in descriptors).
ArrayAddr == NULL + 1
\* Address of the caller's flat memory block (in bytes).
BlockAddr == NULL + 1
\* Address of the context object; its pool is the member pool_s.
CtxAddr == NULL + 1
PoolAddr == CtxAddr

\* Addresses of the descriptors of the array, and the byte addresses a caller
\* may pass to a lookup: NULL, and every byte from the block's first to the one
\* after the first byte of the last chunk of the largest block.
BufAddrs == {ArrayAddr + i : i \in 0..(MaxCount - 1)}
MemAddrs == {NULL} \cup {BlockAddr + k : k \in 0..(((MaxCount - 1) * MaxSize) + 1)}

\* buffer_st, buffer_pool_st and buffer_array_ctx_st in zeroed static storage.
ZeroBuffer == [data_u8p |-> NULL, capacity_bytes |-> 0,
               is_available |-> FALSE, is_initialized |-> FALSE]
ZeroPool == [buffer_array_sa |-> NULL, buffer_count |-> 0, is_initialized |-> FALSE]
ZeroCtx == [buffer_array_sa |-> NULL, memory_block_u8p |-> NULL,
            buffer_count |-> 0, buffer_size |-> 0, is_initialized |-> FALSE]

VARIABLES
    bufs,    \* the descriptor array: descriptor address -> buffer_st
    pool,    \* ctx.pool_s, a buffer_pool_st
    ctx,     \* the other members of the buffer_array_ctx_st
    last,    \* history: the last call, its arguments and what it returned
    loan,    \* history: per tracked descriptor, "held" from the acquire that
             \* returned it until it is given back ("back"); "never" before
    run,     \* history: the returns of the acquire calls made in a row on a pool
             \* that was all free
    procs    \* the execution contexts running a call step by step

vars == <<bufs, pool, ctx, last, loan, run, procs>>

\* ------------------------------------------------------ static functions
buffer_is_valid(b, buffer_csp) ==
    (NULL # buffer_csp) /\ (TRUE = b[buffer_csp].is_initialized)

buffer_pool_is_valid(p, pool_csp) ==
    /\ NULL # pool_csp
    /\ TRUE = p.is_initialized
    /\ NULL # p.buffer_array_sa
    /\ 0 < p.buffer_count

\* ------------------------------------------------------ single buffer API
buffer_init(b, buffer_sp, memory_u8p, capacity_bytes) ==
    IF NULL = buffer_sp
    THEN b
    ELSE [b EXCEPT ![buffer_sp] =
            [data_u8p       |-> memory_u8p,
             capacity_bytes |-> capacity_bytes,
             is_initialized |-> TRUE,
             is_available   |-> ((NULL # memory_u8p) /\ (0 # capacity_bytes))]]

\* The returned pointer, and the value stored through capacity_bytes_out_p.
buffer_data(b, buffer_csp) ==
    IF buffer_is_valid(b, buffer_csp)
    THEN [ret |-> b[buffer_csp].data_u8p, capacity |-> b[buffer_csp].capacity_bytes]
    ELSE [ret |-> NULL, capacity |-> 0]

\* A faulty variant: a descriptor without backing memory or capacity is not made available.
buffer_mark_free_guarded(b, buffer_sp) ==
    IF /\ buffer_is_valid(b, buffer_sp)
       /\ NULL # b[buffer_sp].data_u8p
       /\ 0 # b[buffer_sp].capacity_bytes
    THEN [b EXCEPT ![buffer_sp].is_available = TRUE]
    ELSE b

\* A faulty variant: the availability flag is not written.
buffer_mark_free_skip(b, buffer_sp) == b

buffer_mark_free(b, buffer_sp) ==
    IF buffer_is_valid(b, buffer_sp)
    THEN [b EXCEPT ![buffer_sp].is_available = TRUE]
    ELSE b

\* A faulty variant: marking a descriptor in-use also clears its capacity.
buffer_mark_in_use_clear(b, buffer_sp) ==
    IF buffer_is_valid(b, buffer_sp)
    THEN [b EXCEPT ![buffer_sp].is_available = FALSE, ![buffer_sp].capacity_bytes = 0]
    ELSE b

buffer_mark_in_use(b, buffer_sp) ==
    IF buffer_is_valid(b, buffer_sp)
    THEN [b EXCEPT ![buffer_sp].is_available = FALSE]
    ELSE b

\* ---------------------------------------------------------------- pool API
\* A faulty variant: a zero count is not rejected.
pool_init_any_count(p, pool_sp, buffer_array_sa, buffer_count) ==
    IF (NULL = pool_sp) \/ (NULL = buffer_array_sa)
    THEN p
    ELSE [buffer_array_sa |-> buffer_array_sa,
          buffer_count    |-> buffer_count,
          is_initialized  |-> TRUE]

buffer_pool_init(p, pool_sp, buffer_array_sa, buffer_count) ==
    IF (NULL = pool_sp) \/ (NULL = buffer_array_sa) \/ (0 = buffer_count)
    THEN p
    ELSE [buffer_array_sa |-> buffer_array_sa,
          buffer_count    |-> buffer_count,
          is_initialized  |-> TRUE]

\* A faulty variant: the scan takes an initialized descriptor whatever its flag.
acquire_test_blind(b, current_sp) == buffer_is_valid(b, current_sp)

\* What the scan reads of the descriptor at index: initialized and available.
acquire_test(b, current_sp) ==
    buffer_is_valid(b, current_sp) /\ (TRUE = b[current_sp].is_available)

\* A faulty variant: the scan runs from the last descriptor down to the first.
acquire_scan_down(b, p, index) ==
    LET free == {i \in index..(p.buffer_count - 1) :
                    acquire_test(b, p.buffer_array_sa + i)}
    IN  IF free = {}
        THEN NULL
        ELSE p.buffer_array_sa + (CHOOSE i \in free : \A j \in free : j <= i)

\* A faulty variant: the loop stops one descriptor short of buffer_count.
RECURSIVE acquire_scan_short(_, _, _)
acquire_scan_short(b, p, index) ==
    IF index + 1 < p.buffer_count
    THEN LET current_sp == p.buffer_array_sa + index
         IN  IF acquire_test(b, current_sp)
             THEN current_sp
             ELSE acquire_scan_short(b, p, index + 1)
    ELSE NULL

\* A faulty variant: the first descriptor of the array is taken untested.
acquire_scan_first(b, p, index) ==
    IF index < p.buffer_count THEN p.buffer_array_sa + index ELSE NULL

\* The scan of buffer_pool_acquire from index on: the first descriptor that is
\* initialized and available, or NULL.
RECURSIVE acquire_scan(_, _, _)
acquire_scan(b, p, index) ==
    IF index < p.buffer_count
    THEN LET current_sp == p.buffer_array_sa + index
         IN  IF acquire_test(b, current_sp)
             THEN current_sp
             ELSE acquire_scan(b, p, index + 1)
    ELSE NULL

\* A faulty variant: the descriptor found is returned without being marked in-use.
acquire_mark_skip(b, current_sp) == b

\* A faulty variant: the write that marks the descriptor also clears its capacity.
acquire_mark_wipe(b, current_sp) ==
    [b EXCEPT ![current_sp].is_available = FALSE, ![current_sp].capacity_bytes = 0]

\* The write that marks the descriptor found in-use.
acquire_mark(b, current_sp) == [b EXCEPT ![current_sp].is_available = FALSE]

\* The descriptor array after the call, and the returned descriptor.
buffer_pool_acquire(b, p, pool_sp) ==
    IF ~buffer_pool_is_valid(p, pool_sp)
    THEN [bufs |-> b, ret |-> NULL]
    ELSE LET current_sp == acquire_scan(b, p, 0)
         IN  IF current_sp # NULL
             THEN [bufs |-> acquire_mark(b, current_sp), ret |-> current_sp]
             ELSE [bufs |-> b, ret |-> NULL]

\* A faulty variant: the lookup passes over the descriptors that are in-use.
RECURSIVE find_scan_free(_, _, _, _)
find_scan_free(b, p, memory_u8p, index) ==
    IF index < p.buffer_count
    THEN LET current_sp == p.buffer_array_sa + index
         IN  IF /\ buffer_is_valid(b, current_sp)
                /\ b[current_sp].data_u8p = memory_u8p
                /\ b[current_sp].is_available
             THEN current_sp
             ELSE find_scan_free(b, p, memory_u8p, index + 1)
    ELSE NULL

RECURSIVE find_scan(_, _, _, _)
find_scan(b, p, memory_u8p, index) ==
    IF index < p.buffer_count
    THEN LET current_sp == p.buffer_array_sa + index
         IN  IF buffer_is_valid(b, current_sp) /\ (b[current_sp].data_u8p = memory_u8p)
             THEN current_sp
             ELSE find_scan(b, p, memory_u8p, index + 1)
    ELSE NULL

\* A faulty variant: a NULL query pointer is not rejected before the scan.
find_null_scanned(b, p, pool_sp, memory_u8p) ==
    IF ~buffer_pool_is_valid(p, pool_sp)
    THEN NULL
    ELSE find_scan(b, p, memory_u8p, 0)

buffer_pool_find(b, p, pool_sp, memory_u8p) ==
    IF (~buffer_pool_is_valid(p, pool_sp)) \/ (NULL = memory_u8p)
    THEN NULL
    ELSE find_scan(b, p, memory_u8p, 0)

\* A faulty variant: releasing a descriptor that is free already is reported as a failure.
release_once(b, p, pool_sp, memory_u8p) ==
    LET buffer_sp == buffer_pool_find(b, p, pool_sp, memory_u8p)
    IN  IF (NULL = buffer_sp) \/ b[buffer_sp].is_available
        THEN [bufs |-> b, ret |-> FALSE]
        ELSE [bufs |-> buffer_mark_free(b, buffer_sp), ret |-> TRUE]

\* A faulty variant: every descriptor with the queried pointer is made available.
release_all_matches(b, p, pool_sp, memory_u8p) ==
    LET buffer_sp == buffer_pool_find(b, p, pool_sp, memory_u8p)
    IN  IF NULL = buffer_sp
        THEN [bufs |-> b, ret |-> FALSE]
        ELSE [bufs |-> [d \in DOMAIN b |->
                          IF b[d].is_initialized /\ (b[d].data_u8p = memory_u8p)
                          THEN [b[d] EXCEPT !.is_available = TRUE]
                          ELSE b[d]],
              ret |-> TRUE]

\* The descriptor array after the call, and the returned bool.
buffer_pool_release_by_ptr(b, p, pool_sp, memory_u8p) ==
    LET buffer_sp == buffer_pool_find(b, p, pool_sp, memory_u8p)
    IN  IF NULL = buffer_sp
        THEN [bufs |-> b, ret |-> FALSE]
        ELSE [bufs |-> buffer_mark_free(b, buffer_sp), ret |-> TRUE]

\* A faulty variant: every slot of the array is made available, initialized or not.
mark_all_free_unguarded(b, p, index) ==
    [d \in DOMAIN b |->
        IF d \in {p.buffer_array_sa + i : i \in index..(p.buffer_count - 1)}
        THEN [b[d] EXCEPT !.is_available = TRUE]
        ELSE b[d]]

RECURSIVE mark_all_free_loop(_, _, _)
mark_all_free_loop(b, p, index) ==
    IF index < p.buffer_count
    THEN LET current_sp == p.buffer_array_sa + index
         IN  mark_all_free_loop(
                 IF buffer_is_valid(b, current_sp)
                 THEN [b EXCEPT ![current_sp].is_available = TRUE]
                 ELSE b,
                 p, index + 1)
    ELSE b

buffer_pool_mark_all_free(b, p, pool_sp) ==
    IF ~buffer_pool_is_valid(p, pool_sp)
    THEN b
    ELSE mark_all_free_loop(b, p, 0)

\* ---------------------------------------------------- array context API
\* A faulty variant: the chunk index is not scaled by the chunk size.
chunk_addr_unscaled(memory_block_u8p, index, buffer_size) ==
    memory_block_u8p + index

\* A faulty variant: every chunk gets the address of the block's first byte.
chunk_addr_first(memory_block_u8p, index, buffer_size) ==
    memory_block_u8p

\* The address of chunk index of the block: &memory_block_u8p[index * buffer_size].
chunk_addr(memory_block_u8p, index, buffer_size) ==
    memory_block_u8p + (index * buffer_size)

RECURSIVE ctx_init_loop(_, _, _, _, _, _)
ctx_init_loop(b, buffer_array_sa, memory_block_u8p, buffer_count, buffer_size, index) ==
    IF index < buffer_count
    THEN ctx_init_loop(
             buffer_init(b, buffer_array_sa + index,
                         chunk_addr(memory_block_u8p, index, buffer_size), buffer_size),
             buffer_array_sa, memory_block_u8p, buffer_count, buffer_size, index + 1)
    ELSE b

\* The descriptor array, the pool and the context after the call.
buffer_array_ctx_init(b, p, c, ctx_sp, buffer_array_sa, memory_block_u8p, buffer_count, buffer_size) ==
    IF \/ NULL = ctx_sp
       \/ NULL = buffer_array_sa
       \/ NULL = memory_block_u8p
       \/ 0 = buffer_count
       \/ 0 = buffer_size
    THEN [bufs |-> b, pool |-> p, ctx |-> c]
    ELSE [bufs |-> ctx_init_loop(b, buffer_array_sa, memory_block_u8p,
                                 buffer_count, buffer_size, 0),
          pool |-> buffer_pool_init(p, PoolAddr, buffer_array_sa, buffer_count),
          ctx  |-> [buffer_array_sa  |-> buffer_array_sa,
                    memory_block_u8p |-> memory_block_u8p,
                    buffer_count     |-> buffer_count,
                    buffer_size      |-> buffer_size,
                    is_initialized   |-> TRUE]]

buffer_array_acquire(b, p, c, ctx_sp) ==
    IF (NULL = ctx_sp) \/ (FALSE = c.is_initialized)
    THEN [bufs |-> b, ret |-> NULL]
    ELSE buffer_pool_acquire(b, p, PoolAddr)

buffer_array_find_by_ptr(b, p, c, ctx_sp, memory_u8p) ==
    IF (NULL = ctx_sp) \/ (FALSE = c.is_initialized)
    THEN NULL
    ELSE buffer_pool_find(b, p, PoolAddr, memory_u8p)

\* A faulty variant: the context's own initialized flag is not looked at.
array_release_unchecked(b, p, c, ctx_sp, memory_u8p) ==
    buffer_pool_release_by_ptr(b, p, PoolAddr, memory_u8p)

buffer_array_release_by_ptr(b, p, c, ctx_sp, memory_u8p) ==
    IF (NULL = ctx_sp) \/ (FALSE = c.is_initialized)
    THEN [bufs |-> b, ret |-> FALSE]
    ELSE buffer_pool_release_by_ptr(b, p, PoolAddr, memory_u8p)

\* ------------------------------------------------------------ the history
\* The record of a call: its name, the arguments it has and what it returned
\* (ret: the pointer, capacity: through the out parameter, ok: the bool).
\*   was:   for an acquire that returned a descriptor, that descriptor's loan
\*          before the call;
\*   diff:  the fields the call changed;
\*   again: the call before was this same call, and it returned true.
Call(op) ==
    [op |-> op, obj |-> NULL, arr |-> NULL, buf |-> NULL, mem |-> NULL,
     n |-> 0, sz |-> 0, ret |-> NULL, capacity |-> 0, ok |-> FALSE,
     was |-> "none", diff |-> {}, again |-> FALSE]

SameCall(c1, c2) ==
    /\ c1.op = c2.op
    /\ c1.obj = c2.obj
    /\ c1.arr = c2.arr
    /\ c1.buf = c2.buf
    /\ c1.mem = c2.mem
    /\ c1.n = c2.n
    /\ c1.sz = c2.sz

BufFields == {"data_u8p", "capacity_bytes", "is_available", "is_initialized"}
PoolFields == {"buffer_array_sa", "buffer_count", "is_initialized"}
CtxFields == {"buffer_array_sa", "memory_block_u8p", "buffer_count", "buffer_size",
              "is_initialized"}

\* The fields that differ between the state (b1, p1, c1) and (b2, p2, c2).
Diff(b1, p1, c1, b2, p2, c2) ==
    (IF b1 = b2 THEN {}
     ELSE {x \in {"buf"} \X BufAddrs \X BufFields : b1[x[2]][x[3]] # b2[x[2]][x[3]]})
    \cup (IF p1 = p2 THEN {}
          ELSE {x \in {"pool"} \X {PoolAddr} \X PoolFields : p1[x[3]] # p2[x[3]]})
    \cup (IF c1 = c2 THEN {}
          ELSE {x \in {"ctx"} \X {CtxAddr} \X CtxFields : c1[x[3]] # c2[x[3]]})

\* loan tracks the descriptors of its domain.
LoanOut(l, r) == IF r \in DOMAIN l THEN [l EXCEPT ![r] = "held"] ELSE l
LoanBack(l, S) ==
    [a \in DOMAIN l |-> IF (a \in S) /\ (l[a] = "held") THEN "back" ELSE l[a]]
LoanReset(l, S) == [a \in DOMAIN l |-> IF a \in S THEN "never" ELSE l[a]]
LoanWas(l, r) == IF r \in DOMAIN l THEN l[r] ELSE "none"

\* The descriptors a valid pool spans.
PoolBufs(p) == {p.buffer_array_sa + i : i \in 0..(p.buffer_count - 1)}

\* The pool is valid and each of its descriptors is initialized and available.
AllFree(b, p) ==
    /\ buffer_pool_is_valid(p, PoolAddr)
    /\ \A d \in PoolBufs(p) : b[d].is_initialized /\ b[d].is_available

AcquireOps == {"buffer_pool_acquire", "buffer_array_acquire"}
FindOps == {"buffer_pool_find", "buffer_array_find_by_ptr"}
ReleaseOps == {"buffer_pool_release_by_ptr", "buffer_array_release_by_ptr"}
PoolOps == {"buffer_pool_acquire", "buffer_pool_find", "buffer_pool_release_by_ptr",
            "buffer_pool_mark_all_free"}
ArrayOps == {"buffer_array_acquire", "buffer_array_find_by_ptr",
             "buffer_array_release_by_ptr"}

\* The call got as far as the pool: its object is present and, for the context's
\* calls, the context is initialized.
ReachesPool(call, c) ==
    /\ call.obj # NULL
    /\ (call.op \in ArrayOps) => c.is_initialized

\* run after a call that left (b2, p2): an acquire on a pool that was all free
\* when the row of acquires began adds its return (the row is recorded up to one
\* call past the pool's count); any other call begins a new row.
RunAfter(call, b2, p2) ==
    IF (call.op \in AcquireOps) /\ ReachesPool(call, ctx)
    THEN IF run.full /\ (Len(run.rets) <= p2.buffer_count)
         THEN [run EXCEPT !.rets = Append(run.rets, call.ret)]
         ELSE run
    ELSE [full |-> AllFree(b2, p2), rets |-> <<>>]

\* A serialized call returns: the state it leaves and the histories.
Returns(call, b2, p2, c2, l2) ==
    /\ bufs' = b2
    /\ pool' = p2
    /\ ctx' = c2
    /\ loan' = l2
    /\ last' = [call EXCEPT !.diff = Diff(bufs, pool, ctx, bufs', pool', ctx'),
                            !.again = last.ok /\ SameCall(last, call)]
    /\ run' = RunAfter(last', bufs', pool')

\* ------------------------------------------------------------ the inputs
\* What a caller passes for a descriptor: absent, or one of the array.
BufArgs == {NULL} \cup BufAddrs
\* A caller initializing descriptors by hand passes absent memory or the block's
\* first byte (two descriptors may get the same one), and capacity 0 or 1.
InitMems == {NULL, BlockAddr}
InitCaps == {0, 1}
\* buffer_init: every descriptor with every memory and capacity, and an
\* absent descriptor.
BufferInitArgs ==
    (BufAddrs \X InitMems \X InitCaps) \cup {<<NULL, BlockAddr, 1>>}
\* buffer_pool_init: every count (0 too) with the references present, and each
\* reference absent in turn.
PoolInitArgs ==
    {<<PoolAddr, ArrayAddr, n>> : n \in 0..MaxCount}
        \cup {<<NULL, ArrayAddr, 1>>, <<PoolAddr, NULL, 1>>}
\* buffer_array_ctx_init: every count and size (0 too) with the references
\* present, and each reference absent in turn.
CtxInitArgs ==
    {<<CtxAddr, ArrayAddr, BlockAddr, n, sz>> : n \in 0..MaxCount, sz \in 0..MaxSize}
        \cup {<<NULL, ArrayAddr, BlockAddr, 1, 1>>, <<CtxAddr, NULL, BlockAddr, 1, 1>>,
              <<CtxAddr, ArrayAddr, NULL, 1, 1>>}
\* A lookup by pointer on the object at obj: every byte address, and an absent
\* object.
PtrArgs(obj) == {<<obj, m>> : m \in MemAddrs} \cup {<<NULL, BlockAddr>>}

\* ------------------------------------------------------------ the calls
Call_buffer_init ==
    \E a \in BufferInitArgs :
        /\ Returns([Call("buffer_init") EXCEPT !.buf = a[1], !.mem = a[2], !.sz = a[3]],
                   buffer_init(bufs, a[1], a[2], a[3]), pool, ctx,
                   LoanReset(loan, {a[1]}))
        /\ UNCHANGED procs

Call_buffer_data ==
    \E buffer_csp \in BufArgs :
        LET r == buffer_data(bufs, buffer_csp)
        IN  /\ Returns([Call("buffer_data") EXCEPT !.buf = buffer_csp, !.ret = r.ret,
                                                !.capacity = r.capacity],
                    bufs, pool, ctx, loan)
            /\ UNCHANGED procs

Call_buffer_mark_free ==
    \E buffer_sp \in BufArgs :
        /\ Returns([Call("buffer_mark_free") EXCEPT !.buf = buffer_sp],
                buffer_mark_free(bufs, buffer_sp), pool, ctx,
                LoanBack(loan, IF buffer_is_valid(bufs, buffer_sp)
                               THEN {buffer_sp} ELSE {}))
        /\ UNCHANGED procs

Call_buffer_mark_in_use ==
    \E buffer_sp \in BufArgs :
        /\ Returns([Call("buffer_mark_in_use") EXCEPT !.buf = buffer_sp],
                buffer_mark_in_use(bufs, buffer_sp), pool, ctx, loan)
        /\ UNCHANGED procs

Call_buffer_pool_init ==
    \E a \in PoolInitArgs :
        /\ Returns([Call("buffer_pool_init") EXCEPT !.obj = a[1], !.arr = a[2], !.n = a[3]],
                bufs, buffer_pool_init(pool, a[1], a[2], a[3]), ctx, loan)
        /\ UNCHANGED procs

Call_buffer_pool_acquire ==
    \E pool_sp \in {NULL, PoolAddr} :
        LET r == buffer_pool_acquire(bufs, pool, pool_sp)
        IN  /\ Returns([Call("buffer_pool_acquire") EXCEPT !.obj = pool_sp, !.ret = r.ret,
                                                        !.was = LoanWas(loan, r.ret)],
                    r.bufs, pool, ctx, LoanOut(loan, r.ret))
            /\ UNCHANGED procs

Call_buffer_pool_find ==
    \E a \in PtrArgs(PoolAddr) :
        /\ Returns([Call("buffer_pool_find") EXCEPT !.obj = a[1], !.mem = a[2],
                     !.ret = buffer_pool_find(bufs, pool, a[1], a[2])],
                bufs, pool, ctx, loan)
        /\ UNCHANGED procs

Call_buffer_pool_release_by_ptr ==
    \E a \in PtrArgs(PoolAddr) :
        LET r == buffer_pool_release_by_ptr(bufs, pool, a[1], a[2])
        IN  /\ Returns([Call("buffer_pool_release_by_ptr") EXCEPT !.obj = a[1],
                         !.mem = a[2], !.ok = r.ret],
                    r.bufs, pool, ctx,
                    LoanBack(loan, {buffer_pool_find(bufs, pool, a[1], a[2])}))
            /\ UNCHANGED procs

Call_buffer_pool_mark_all_free ==
    \E pool_sp \in {NULL, PoolAddr} :
        /\ Returns([Call("buffer_pool_mark_all_free") EXCEPT !.obj = pool_sp],
                buffer_pool_mark_all_free(bufs, pool, pool_sp), pool, ctx,
                LoanBack(loan, IF buffer_pool_is_valid(pool, pool_sp)
                               THEN {d \in PoolBufs(pool) : buffer_is_valid(bufs, d)}
                               ELSE {}))
        /\ UNCHANGED procs

Call_buffer_array_ctx_init ==
    \E a \in CtxInitArgs :
        LET r == buffer_array_ctx_init(bufs, pool, ctx, a[1], a[2], a[3], a[4], a[5])
        IN  /\ Returns([Call("buffer_array_ctx_init") EXCEPT !.obj = a[1], !.arr = a[2],
                         !.mem = a[3], !.n = a[4], !.sz = a[5]],
                    r.bufs, r.pool, r.ctx,
                    LoanReset(loan, {d \in BufAddrs : r.bufs[d] # bufs[d]}))
            /\ UNCHANGED procs

Call_buffer_array_acquire ==
    \E ctx_sp \in {NULL, CtxAddr} :
        LET r == buffer_array_acquire(bufs, pool, ctx, ctx_sp)
        IN  /\ Returns([Call("buffer_array_acquire") EXCEPT !.obj = ctx_sp, !.ret = r.ret,
                                                         !.was = LoanWas(loan, r.ret)],
                    r.bufs, pool, ctx, LoanOut(loan, r.ret))
            /\ UNCHANGED procs

Call_buffer_array_find_by_ptr ==
    \E a \in PtrArgs(CtxAddr) :
        /\ Returns([Call("buffer_array_find_by_ptr") EXCEPT !.obj = a[1], !.mem = a[2],
                     !.ret = buffer_array_find_by_ptr(bufs, pool, ctx, a[1], a[2])],
                bufs, pool, ctx, loan)
        /\ UNCHANGED procs

Call_buffer_array_release_by_ptr ==
    \E a \in PtrArgs(CtxAddr) :
        LET r == buffer_array_release_by_ptr(bufs, pool, ctx, a[1], a[2])
        IN  /\ Returns([Call("buffer_array_release_by_ptr") EXCEPT !.obj = a[1],
                         !.mem = a[2], !.ok = r.ret],
                    r.bufs, pool, ctx,
                    LoanBack(loan,
                             {buffer_array_find_by_ptr(bufs, pool, ctx, a[1], a[2])}))
            /\ UNCHANGED procs

\* ------------------------------------------------- the whole API, serialized
Procs == {1, 2}
IdleProcs == [c \in Procs |-> [pc |-> "idle", index |-> 0, ret |-> NULL, raced |-> FALSE]]
ZeroBufs == [d \in BufAddrs |-> ZeroBuffer]

\* Zeroed static storage; every call of the API may follow, in any order.
Init ==
    /\ bufs = ZeroBufs
    /\ pool = ZeroPool
    /\ ctx = ZeroCtx
    /\ last = Call("none")
    /\ loan = [d \in {} |-> "never"]
    /\ run = [full |-> FALSE, rets |-> <<>>]
    /\ procs = IdleProcs

Next ==
    \/ Call_buffer_init
    \/ Call_buffer_data
    \/ Call_buffer_mark_free
    \/ Call_buffer_mark_in_use
    \/ Call_buffer_pool_init
    \/ Call_buffer_pool_acquire
    \/ Call_buffer_pool_find
    \/ Call_buffer_pool_release_by_ptr
    \/ Call_buffer_pool_mark_all_free
    \/ Call_buffer_array_ctx_init
    \/ Call_buffer_array_acquire
    \/ Call_buffer_array_find_by_ptr
    \/ Call_buffer_array_release_by_ptr

Spec == Init /\ [][Next]_vars

\* ------------------------------------------- after setup: the calls of a run
\* A setup: by hand, each descriptor left alone or given to buffer_init and then
\* buffer_pool_init called or not; or buffer_array_ctx_init called after that.
\* By hand the descriptors may also get distinct bytes.
HandMems == InitMems \cup {BlockAddr + 1}
HandChoices == {<<FALSE, NULL, 0>>} \cup ({TRUE} \X HandMems \X InitCaps)
HandBufs(f) ==
    [d \in BufAddrs |->
        IF f[d][1] THEN buffer_init(ZeroBufs, d, f[d][2], f[d][3])[d] ELSE ZeroBuffer]

InitRun ==
    /\ \E f \in [BufAddrs -> HandChoices], pa \in PoolInitArgs, ca \in CtxInitArgs :
          LET b1 == HandBufs(f)
              p1 == buffer_pool_init(ZeroPool, pa[1], pa[2], pa[3])
              r  == buffer_array_ctx_init(b1, p1, ZeroCtx,
                                          ca[1], ca[2], ca[3], ca[4], ca[5])
          IN  /\ bufs = r.bufs
              /\ pool = r.pool
              /\ ctx = r.ctx
    /\ last = Call("none")
    /\ loan = [d \in BufAddrs |-> "never"]
    /\ run = [full |-> AllFree(bufs, pool), rets |-> <<>>]
    /\ procs = IdleProcs

NextRun ==
    \/ Call_buffer_data
    \/ Call_buffer_mark_free
    \/ Call_buffer_mark_in_use
    \/ Call_buffer_pool_acquire
    \/ Call_buffer_pool_find
    \/ Call_buffer_pool_release_by_ptr
    \/ Call_buffer_pool_mark_all_free
    \/ Call_buffer_array_acquire
    \/ Call_buffer_array_find_by_ptr
    \/ Call_buffer_array_release_by_ptr

SpecRun == InitRun /\ [][NextRun]_vars

\* ------------------------------- two contexts in acquire at the same time
\* Each context runs buffer_array_acquire one access to the shared availability
\* flag at a time: the test of the descriptor at index (buffer.c line 131) and
\* the write that marks it in-use (line 134) are separate steps.  A context that
\* holds a descriptor gives it back with buffer_array_release_by_ptr, which
\* writes the flag once.
\*   raced: the context found a descriptor free that the other context had found
\*          free and not yet marked (history, never reset).
Other(c) == CHOOSE o \in Procs : o # c

Race_enter(c) ==
    /\ procs[c].pc = "idle"
    /\ procs' = [procs EXCEPT ![c].pc =
                    IF ctx.is_initialized /\ buffer_pool_is_valid(pool, PoolAddr)
                    THEN "scan" ELSE "idle",
                 ![c].index = 0, ![c].ret = NULL]
    /\ UNCHANGED <<bufs, pool, ctx, last, loan, run>>

Race_test(c) ==
    /\ procs[c].pc = "scan"
    /\ LET index == procs[c].index
           current_sp == pool.buffer_array_sa + index
       IN  procs' =
             IF index < pool.buffer_count
             THEN IF acquire_test(bufs, current_sp)
                  THEN [procs EXCEPT ![c].pc = "mark",
                           ![c].raced = procs[c].raced
                                          \/ ( /\ procs[Other(c)].pc = "mark"
                                               /\ procs[Other(c)].index = index )]
                  ELSE [procs EXCEPT ![c].index = index + 1]
             ELSE [procs EXCEPT ![c].pc = "idle", ![c].index = 0, ![c].ret = NULL]
    /\ UNCHANGED <<bufs, pool, ctx, last, loan, run>>

Race_mark(c) ==
    /\ procs[c].pc = "mark"
    /\ LET current_sp == pool.buffer_array_sa + procs[c].index
       IN  /\ bufs' = acquire_mark(bufs, current_sp)
           /\ procs' = [procs EXCEPT ![c].pc = "hold", ![c].index = 0,
                                     ![c].ret = current_sp]
    /\ UNCHANGED <<pool, ctx, last, loan, run>>

Race_release(c) ==
    /\ procs[c].pc = "hold"
    /\ bufs' = buffer_array_release_by_ptr(bufs, pool, ctx, CtxAddr,
                                           buffer_data(bufs, procs[c].ret).ret).bufs
    /\ procs' = [procs EXCEPT ![c].pc = "idle", ![c].ret = NULL]
    /\ UNCHANGED <<pool, ctx, last, loan, run>>

\* The context was set up by buffer_array_ctx_init over zeroed storage.
InitRace ==
    /\ \E n \in 1..MaxCount, sz \in 1..MaxSize :
          LET r == buffer_array_ctx_init(ZeroBufs, ZeroPool, ZeroCtx,
                                         CtxAddr, ArrayAddr, BlockAddr, n, sz)
          IN  /\ bufs = r.bufs
              /\ pool = r.pool
              /\ ctx = r.ctx
    /\ last = Call("none")
    /\ loan = [d \in {} |-> "never"]
    /\ run = [full |-> FALSE, rets |-> <<>>]
    /\ procs = IdleProcs

NextRace ==
    \E c \in Procs :
        \/ Race_enter(c)
        \/ Race_test(c)
        \/ Race_mark(c)
        \/ Race_release(c)

SpecRace == InitRace /\ [][NextRace]_vars

\* ------------------- one context acquires, another one releases what it holds
\* The intended use: the foreground context Task alone calls
\* buffer_array_acquire, one access to the availability flag at a time (Race_enter,
\* Race_test, Race_mark).  When its call has returned a descriptor it hands the
\* chunk to the asynchronous context Isr, which gives it back with
\* buffer_array_release_by_ptr of the chunk's data(): the lookup (which reads the
\* fields that no run-time call writes) and the write of the flag are two steps.
\*   loan[d] is "held" while Isr has chunk d and "back" from the write that frees
\*   it; procs[Isr].index is the index of the chunk whose release is under way and
\*   procs[Isr].ret the descriptor its lookup returned.
Task == CHOOSE c \in Procs : \A o \in Procs : c <= o
Isr == Other(Task)

Isr_hand ==
    /\ procs[Task].pc = "hold"
    /\ loan' = [loan EXCEPT ![procs[Task].ret] = "held"]
    /\ procs' = [procs EXCEPT ![Task].pc = "idle", ![Task].ret = NULL]
    /\ UNCHANGED <<bufs, pool, ctx, last, run>>

Isr_find(d) ==
    /\ procs[Isr].pc = "idle"
    /\ loan[d] = "held"
    /\ LET buffer_sp == buffer_array_find_by_ptr(bufs, pool, ctx, CtxAddr,
                                                 buffer_data(bufs, d).ret)
       IN  procs' = [procs EXCEPT ![Isr].pc = IF NULL = buffer_sp THEN "idle" ELSE "free",
                                  ![Isr].index = d - pool.buffer_array_sa,
                                  ![Isr].ret = buffer_sp]
    /\ UNCHANGED <<bufs, pool, ctx, last, loan, run>>

Isr_free ==
    /\ procs[Isr].pc = "free"
    /\ bufs' = buffer_mark_free(bufs, procs[Isr].ret)
    /\ loan' = [loan EXCEPT ![pool.buffer_array_sa + procs[Isr].index] = "back"]
    /\ procs' = [procs EXCEPT ![Isr].pc = "idle", ![Isr].index = 0, ![Isr].ret = NULL]
    /\ UNCHANGED <<pool, ctx, last, run>>

\* The context was set up by buffer_array_ctx_init over zeroed storage, before
\* the two contexts start.
InitIsr ==
    /\ \E n \in 1..MaxCount, sz \in 1..MaxSize :
          LET r == buffer_array_ctx_init(ZeroBufs, ZeroPool, ZeroCtx,
                                         CtxAddr, ArrayAddr, BlockAddr, n, sz)
          IN  /\ bufs = r.bufs
              /\ pool = r.pool
              /\ ctx = r.ctx
    /\ last = Call("none")
    /\ loan = [d \in BufAddrs |-> "never"]
    /\ run = [full |-> FALSE, rets |-> <<>>]
    /\ procs = IdleProcs

NextIsr ==
    \/ Race_enter(Task)
    \/ Race_test(Task)
    \/ Race_mark(Task)
    \/ Isr_hand
    \/ \E d \in BufAddrs : Isr_find(d)
    \/ Isr_free

SpecIsr == InitIsr /\ [][NextIsr]_vars

\* --------------------------------- the loops, one descriptor inspected a step
\* The context Task runs a call one loop iteration at a time: last is the call
\* under way (or the last one, once it has returned: ret and ok are what it
\* returned), procs[Task].pc is "loop" in its for loop, "mark" between the test
\* and the write of an acquire, "free" between the lookup and the write of a
\* release, and procs[Task].index is the loop's index.  The other context makes
\* whole release_by_ptr calls in between, as an interrupt does.
\*   seen: the indexes the call has inspected, in order (history; it is recorded
\*         up to one inspection past MaxCount).
StepProcs ==
    [c \in Procs |-> [pc |-> "idle", index |-> 0, ret |-> NULL, raced |-> FALSE,
                      seen |-> <<>>]]

\* The calls that have a loop, with their arguments.
StepCalls ==
    {[Call("buffer_array_acquire") EXCEPT !.obj = CtxAddr]}
        \cup {[Call(op) EXCEPT !.obj = CtxAddr, !.mem = m] :
                 op \in {"buffer_array_find_by_ptr", "buffer_array_release_by_ptr"},
                 m \in MemAddrs}
        \cup {[Call("buffer_pool_mark_all_free") EXCEPT !.obj = PoolAddr]}
        \cup {[Call("buffer_array_ctx_init") EXCEPT !.obj = a[1], !.arr = a[2],
                                                   !.mem = a[3], !.n = a[4], !.sz = a[5]] :
                 a \in CtxInitArgs}

\* The call passes the checks made before its loop.
Enters(call) ==
    IF call.op = "buffer_array_ctx_init"
    THEN ~ ( \/ NULL = call.obj
             \/ NULL = call.arr
             \/ NULL = call.mem
             \/ 0 = call.n
             \/ 0 = call.sz )
    ELSE IF call.op = "buffer_pool_mark_all_free"
    THEN buffer_pool_is_valid(pool, call.obj)
    ELSE /\ ~ ((NULL = call.obj) \/ (FALSE = ctx.is_initialized))
         /\ buffer_pool_is_valid(pool, PoolAddr)
         /\ (call.op \in ArrayOps \ {"buffer_array_acquire"}) => (NULL # call.mem)

\* The bound of the call's loop.
LoopCount(call) ==
    IF call.op = "buffer_array_ctx_init" THEN call.n ELSE pool.buffer_count

\* A faulty variant: the loop tries the same descriptor again.
next_index_stuck(index) == index

\* ++index
next_index(index) == index + 1

Inspect(seen, index) == IF Len(seen) <= MaxCount THEN Append(seen, index) ELSE seen

Step_enter ==
    /\ procs[Task].pc = "idle"
    /\ \E call \in StepCalls :
          /\ last' = call
          /\ procs' = [procs EXCEPT ![Task].pc = IF Enters(call) THEN "loop" ELSE "idle",
                                    ![Task].index = 0,
                                    ![Task].ret = NULL,
                                    ![Task].seen = <<>>]
          /\ ctx' = IF (call.op = "buffer_array_ctx_init") /\ Enters(call)
                    THEN [ctx EXCEPT !.buffer_array_sa = call.arr,
                                     !.memory_block_u8p = call.mem,
                                     !.buffer_count = call.n,
                                     !.buffer_size = call.sz]
                    ELSE ctx
    /\ UNCHANGED <<bufs, pool, loan, run>>

Step_acquire_test ==
    /\ procs[Task].pc = "loop"
    /\ last.op = "buffer_array_acquire"
    /\ LET index == procs[Task].index
           current_sp == pool.buffer_array_sa + index
       IN  IF index < LoopCount(last)
           THEN /\ procs' = IF acquire_test(bufs, current_sp)
                            THEN [procs EXCEPT ![Task].pc = "mark",
                                               ![Task].seen = Inspect(@, index)]
                            ELSE [procs EXCEPT ![Task].index = next_index(index),
                                               ![Task].seen = Inspect(@, index)]
                /\ last' = last
           ELSE /\ procs' = [procs EXCEPT ![Task].pc = "idle", ![Task].index = 0]
                /\ last' = [last EXCEPT !.ret = NULL]
    /\ UNCHANGED <<bufs, pool, ctx, loan, run>>

Step_acquire_mark ==
    /\ procs[Task].pc = "mark"
    /\ LET current_sp == pool.buffer_array_sa + procs[Task].index
       IN  /\ bufs' = acquire_mark(bufs, current_sp)
           /\ last' = [last EXCEPT !.ret = current_sp]
    /\ procs' = [procs EXCEPT ![Task].pc = "idle", ![Task].index = 0]
    /\ UNCHANGED <<pool, ctx, loan, run>>

Step_find_test ==
    /\ procs[Task].pc = "loop"
    /\ last.op \in {"buffer_array_find_by_ptr", "buffer_array_release_by_ptr"}
    /\ LET index == procs[Task].index
           current_sp == pool.buffer_array_sa + index
       IN  IF index < LoopCount(last)
           THEN IF buffer_is_valid(bufs, current_sp)
                   /\ (bufs[current_sp].data_u8p = last.mem)
                THEN IF last.op = "buffer_array_find_by_ptr"
                     THEN /\ procs' = [procs EXCEPT ![Task].pc = "idle",
                                                    ![Task].index = 0,
                                                    ![Task].seen = Inspect(@, index)]
                          /\ last' = [last EXCEPT !.ret = current_sp]
                     ELSE /\ procs' = [procs EXCEPT ![Task].pc = "free",
                                                    ![Task].ret = current_sp,
                                                    ![Task].seen = Inspect(@, index)]
                          /\ last' = last
                ELSE /\ procs' = [procs EXCEPT ![Task].index = next_index(index),
                                               ![Task].seen = Inspect(@, index)]
                     /\ last' = last
           ELSE /\ procs' = [procs EXCEPT ![Task].pc = "idle", ![Task].index = 0]
                /\ last' = [last EXCEPT !.ret = NULL, !.ok = FALSE]
    /\ UNCHANGED <<bufs, pool, ctx, loan, run>>

Step_release_free ==
    /\ procs[Task].pc = "free"
    /\ bufs' = buffer_mark_free(bufs, procs[Task].ret)
    /\ last' = [last EXCEPT !.ok = TRUE]
    /\ procs' = [procs EXCEPT ![Task].pc = "idle", ![Task].index = 0, ![Task].ret = NULL]
    /\ UNCHANGED <<pool, ctx, loan, run>>

Step_mark_all_free ==
    /\ procs[Task].pc = "loop"
    /\ last.op = "buffer_pool_mark_all_free"
    /\ LET index == procs[Task].index
           current_sp == pool.buffer_array_sa + index
       IN  IF index < LoopCount(last)
           THEN /\ bufs' = IF buffer_is_valid(bufs, current_sp)
                           THEN [bufs EXCEPT ![current_sp].is_available = TRUE]
                           ELSE bufs
                /\ procs' = [procs EXCEPT ![Task].index = next_index(index),
                                          ![Task].seen = Inspect(@, index)]
           ELSE /\ bufs' = bufs
                /\ procs' = [procs EXCEPT ![Task].pc = "idle", ![Task].index = 0]
    /\ UNCHANGED <<pool, ctx, last, loan, run>>

Step_ctx_init ==
    /\ procs[Task].pc = "loop"
    /\ last.op = "buffer_array_ctx_init"
    /\ LET index == procs[Task].index
       IN  IF index < LoopCount(last)
           THEN /\ bufs' = buffer_init(bufs, last.arr + index,
                                       chunk_addr(last.mem, index, last.sz), last.sz)
                /\ procs' = [procs EXCEPT ![Task].index = next_index(index),
                                          ![Task].seen = Inspect(@, index)]
                /\ UNCHANGED <<pool, ctx>>
           ELSE /\ bufs' = bufs
                /\ pool' = buffer_pool_init(pool, PoolAddr, last.arr, last.n)
                /\ ctx' = [ctx EXCEPT !.is_initialized = TRUE]
                /\ procs' = [procs EXCEPT ![Task].pc = "idle", ![Task].index = 0]
    /\ UNCHANGED <<last, loan, run>>

\* A whole buffer_array_release_by_ptr call of the other context.
Async_release ==
    /\ \E memory_u8p \in MemAddrs :
          bufs' = buffer_array_release_by_ptr(bufs, pool, ctx, CtxAddr, memory_u8p).bufs
    /\ UNCHANGED <<pool, ctx, last, loan, run, procs>>

InitSteps ==
    /\ bufs = ZeroBufs
    /\ pool = ZeroPool
    /\ ctx = ZeroCtx
    /\ last = Call("none")
    /\ loan = [d \in {} |-> "never"]
    /\ run = [full |-> FALSE, rets |-> <<>>]
    /\ procs = StepProcs

\* The steps of the call under way.
StepRun ==
    \/ Step_acquire_test
    \/ Step_acquire_mark
    \/ Step_find_test
    \/ Step_release_free
    \/ Step_mark_all_free
    \/ Step_ctx_init

NextSteps ==
    \/ Step_enter
    \/ StepRun
    \/ Async_release

\* The context that is in a call keeps running it: nothing in the code blocks
\* it.  Nothing is assumed of the other context's releases.
SpecSteps == InitSteps /\ [][NextSteps]_vars /\ WF_vars(StepRun)

\* ----------------------------------------------------------------- claims
\* The descriptors of the pool that are initialized and have backing pointer mem.
Matches(b, p, mem) ==
    {d \in PoolBufs(p) : b[d].is_initialized /\ (b[d].data_u8p = mem)}
\* The one at the lowest index.
Lowest(S) == CHOOSE d \in S : \A e \in S : d <= e
\* The descriptor array with the availability flags av.
WithFlags(b, av) == [d \in BufAddrs |-> [b[d] EXCEPT !.is_available = av[d]]]

\* C1 (SpecRun): an acquire never returns a descriptor that an earlier acquire
\* returned and that no release_by_ptr, mark_free or mark_all_free has targeted
\* since.
C1_NoDoubleAcquire ==
    ((last.op \in AcquireOps) /\ (last.ret # NULL)) => (last.was # "held")

\* A descriptor was acquired, given back and is acquired again.
C1_Witness == (last.op \in AcquireOps) /\ (last.was = "back")

\* C2 (SpecRun): of the acquire calls made in a row on a pool of N descriptors
\* that were all initialized and free, the first N return pairwise distinct
\* descriptors and the one after them returns NULL.
C2_FullPoolAcquires ==
    run.full =>
        \A i \in 1..Len(run.rets) :
            IF i <= pool.buffer_count
            THEN /\ run.rets[i] # NULL
                 /\ \A j \in 1..(i - 1) : run.rets[j] # run.rets[i]
            ELSE run.rets[i] = NULL

\* N + 1 acquires in a row were made on a full pool of the largest count.
C2_Witness ==
    /\ run.full
    /\ pool.buffer_count = MaxCount
    /\ Len(run.rets) = MaxCount + 1

\* C3 (SpecRace): two contexts hold the same descriptor only after one of them
\* found a descriptor free that the other had found free and not yet marked;
\* calls that do not overlap so never hand a descriptor out twice.
C3_DoubleOnlyByRace ==
    ( /\ procs[1].pc = "hold"
      /\ procs[2].pc = "hold"
      /\ procs[1].ret = procs[2].ret )
    => (procs[1].raced \/ procs[2].raced)

\* Both contexts tested the same descriptor before either marked it, and both
\* calls returned it.
C3_Witness ==
    /\ procs[1].pc = "hold"
    /\ procs[2].pc = "hold"
    /\ procs[1].ret = procs[2].ret
    /\ procs[1].ret # NULL
    /\ procs[2].raced
    /\ ~procs[1].raced

\* C4 (SpecRun): a release_by_ptr that returns true leaves the first descriptor
\* with that backing pointer available; the same call made again right after it
\* returns true again and changes nothing.
C4_ReleaseIdempotent ==
    (last.op \in ReleaseOps) =>
        /\ last.again => last.ok
        /\ last.ok =>
            /\ Matches(bufs, pool, last.mem) # {}
            /\ bufs[Lowest(Matches(bufs, pool, last.mem))].is_available
            /\ last.again => (last.diff = {})

\* A release of a descriptor on loan was made twice in a row.
C4_Witness ==
    /\ last.op \in ReleaseOps
    /\ last.again
    /\ last.ok
    /\ \E d \in DOMAIN loan : (loan[d] = "back") /\ (bufs[d].data_u8p = last.mem)

\* C5 (SpecRun): on an initialized pool, find returns the first initialized
\* descriptor whose backing pointer is the queried one, whatever the availability
\* flags are, and NULL for NULL and for a pointer no such descriptor has.
C5_FindIgnoresAvailability ==
    ((last.op \in FindOps) /\ ReachesPool(last, ctx) /\ pool.is_initialized) =>
        /\ last.ret = IF (last.mem = NULL) \/ (Matches(bufs, pool, last.mem) = {})
                      THEN NULL
                      ELSE Lowest(Matches(bufs, pool, last.mem))
        /\ \A av \in [BufAddrs -> BOOLEAN] :
              buffer_pool_find(WithFlags(bufs, av), pool, PoolAddr, last.mem) = last.ret

\* A descriptor on loan, in-use, was found by its pointer.
C5_Witness ==
    /\ last.op \in FindOps
    /\ last.ret # NULL
    /\ ~bufs[last.ret].is_available
    /\ loan[last.ret] = "held"

\* C6 (SpecRun): once buffer_array_ctx_init has run with valid arguments, each
\* descriptor i below the count is initialized, points at memory_block +
\* i * chunk_size and has capacity chunk_size, through every later acquire, find
\* and release; right after the init it is available too.
C6_ChunkGeometry ==
    ctx.is_initialized =>
        \A i \in 0..(ctx.buffer_count - 1) :
            LET d == bufs[ctx.buffer_array_sa + i]
            IN  /\ d.is_initialized
                /\ d.data_u8p = ctx.memory_block_u8p + (i * ctx.buffer_size)
                /\ d.capacity_bytes = ctx.buffer_size
                /\ (last.op = "none") => d.is_available

\* A chunk of the largest context was acquired and released by its pointer.
C6_Witness ==
    /\ ctx.is_initialized
    /\ ctx.buffer_count = MaxCount
    /\ ctx.buffer_size = MaxSize
    /\ last.op = "buffer_array_release_by_ptr"
    /\ last.ok
    /\ last.diff # {}
    /\ last.mem = ctx.memory_block_u8p + ((MaxCount - 1) * MaxSize)

\* C7 (Spec): a pool or context call on an absent or uninitialized pool or context
\* changes nothing and returns NULL or false; an init call with an absent
\* reference or a zero count or size changes nothing.
C7_InvalidCallsInert ==
    /\ ( /\ last.op \in (PoolOps \cup ArrayOps)
         /\ \/ last.obj = NULL
            \/ (last.op \in PoolOps) /\ ~pool.is_initialized
            \/ (last.op \in ArrayOps) /\ ~ctx.is_initialized )
       => ((last.diff = {}) /\ (last.ret = NULL) /\ (last.ok = FALSE))
    /\ ( /\ last.op = "buffer_pool_init"
         /\ (last.obj = NULL) \/ (last.arr = NULL) \/ (last.n = 0) )
       => (last.diff = {})
    /\ ( /\ last.op = "buffer_array_ctx_init"
         /\ \/ last.obj = NULL
            \/ last.arr = NULL
            \/ last.mem = NULL
            \/ last.n = 0
            \/ last.sz = 0 )
       => (last.diff = {})

\* A release through an uninitialized context, of the pointer of an in-use
\* descriptor of a valid pool.
C7_Witness ==
    /\ last.op = "buffer_array_release_by_ptr"
    /\ last.obj # NULL
    /\ ~ctx.is_initialized
    /\ buffer_pool_is_valid(pool, PoolAddr)
    /\ \E d \in Matches(bufs, pool, last.mem) : ~bufs[d].is_available

\* C8 (Spec): buffer_init with NULL memory or zero capacity leaves the descriptor
\* initialized and not available, and buffer_mark_free on an initialized
\* descriptor makes it available whatever its memory and capacity are.
C8_PhantomAvailable ==
    /\ ( /\ last.op = "buffer_init"
         /\ last.buf # NULL
         /\ (last.mem = NULL) \/ (last.sz = 0) )
       => (bufs[last.buf].is_initialized /\ ~bufs[last.buf].is_available)
    /\ ( /\ last.op = "buffer_mark_free"
         /\ last.buf # NULL
         /\ bufs[last.buf].is_initialized )
       => bufs[last.buf].is_available

\* An acquire returned a descriptor whose data() is NULL or of capacity 0.
C8_Witness ==
    /\ last.op \in AcquireOps
    /\ last.ret # NULL
    /\ \/ buffer_data(bufs, last.ret).ret = NULL
       \/ buffer_data(bufs, last.ret).capacity = 0

\* C9 (SpecRun): an acquire that reaches the pool returns the lowest-index
\* descriptor among those that were initialized and available, changes its
\* availability flag and nothing else, and returns NULL exactly when the pool is
\* invalid or there was none; an acquire that does not reach the pool returns
\* NULL.
C9_LowestFreeFirst ==
    (last.op \in AcquireOps) =>
        LET before == IF last.ret = NULL
                      THEN bufs
                      ELSE [bufs EXCEPT ![last.ret].is_available = TRUE]
            free == IF ReachesPool(last, ctx) /\ buffer_pool_is_valid(pool, PoolAddr)
                    THEN {d \in PoolBufs(pool) :
                             before[d].is_initialized /\ before[d].is_available}
                    ELSE {}
        IN  /\ last.ret = IF free = {} THEN NULL ELSE Lowest(free)
            /\ last.diff = IF last.ret = NULL
                           THEN {}
                           ELSE {<<"buf", last.ret, "is_available">>}
            /\ (last.ret # NULL) => ~bufs[last.ret].is_available

\* The first descriptor is acquired again after it was given back, while a later
\* one is still on loan.
C9_Witness ==
    /\ last.op \in AcquireOps
    /\ last.ret = ArrayAddr
    /\ last.was = "back"
    /\ \E d \in DOMAIN loan : (d # ArrayAddr) /\ (loan[d] = "held")

\* C10 as stated (Spec): no call, init included, changes the backing pointer or
\* the capacity of a descriptor that was initialized before the call.
C10_NeverRebound ==
    \A d \in BufAddrs :
        ( \/ <<"buf", d, "data_u8p">> \in last.diff
          \/ <<"buf", d, "capacity_bytes">> \in last.diff )
        => (<<"buf", d, "is_initialized">> \in last.diff)

\* C10 as amended (Spec): only buffer_init and buffer_array_ctx_init change a
\* backing pointer or a capacity; no other call does.
C10_OnlyInitRebinds ==
    (last.op \notin {"buffer_init", "buffer_array_ctx_init"}) =>
        \A d \in BufAddrs :
            /\ <<"buf", d, "data_u8p">> \notin last.diff
            /\ <<"buf", d, "capacity_bytes">> \notin last.diff

\* A call other than an init changed a descriptor that has memory and capacity.
C10_Witness ==
    /\ last.op = "buffer_mark_in_use"
    /\ last.diff # {}
    /\ bufs[last.buf].data_u8p # NULL
    /\ bufs[last.buf].capacity_bytes # 0

\* The descriptor array before the last call, when the call changed availability
\* flags only: each changed flag is put back.
Before(b, diff) ==
    [d \in BufAddrs |->
        [b[d] EXCEPT !.is_available =
            IF <<"buf", d, "is_available">> \in diff THEN ~b[d].is_available
            ELSE b[d].is_available]]
\* The fields of the descriptors that are not availability flags, and the fields
\* of the pool and of the context.
NotFlags(diff) == {x \in diff : (x[1] # "buf") \/ (x[3] # "is_available")}
\* What the find of the same object and pointer returned on the descriptors b.
FindOf(call, b) ==
    IF call.op \in ArrayOps
    THEN buffer_array_find_by_ptr(b, pool, ctx, call.obj, call.mem)
    ELSE buffer_pool_find(b, pool, call.obj, call.mem)

\* C11 (SpecRun): release_by_ptr returns true exactly when find of the same
\* pointer returned a descriptor, and leaves what buffer_mark_free on that
\* descriptor leaves: that descriptor available and nothing else changed; with no
\* match, an invalid pool or a NULL pointer it returns false and changes nothing.
C11_ReleaseIsFindThenFree ==
    (last.op \in ReleaseOps) =>
        LET pre == Before(bufs, last.diff)
            found == FindOf(last, pre)
        IN  /\ NotFlags(last.diff) = {}
            /\ last.ok = (found # NULL)
            /\ bufs = buffer_mark_free(pre, found)
            /\ (found # NULL) =>
                  /\ bufs[found].is_available
                  /\ last.diff \subseteq {<<"buf", found, "is_available">>}
            /\ ( \/ last.obj = NULL
                 \/ last.mem = NULL
                 \/ ~buffer_pool_is_valid(pool, PoolAddr)
                 \/ Matches(pre, pool, last.mem) = {} )
               => ((last.ok = FALSE) /\ (last.diff = {}))

\* A release freed the first of two in-use descriptors that have the same backing
\* pointer; the second one stays in-use.
C11_Witness ==
    /\ last.op \in ReleaseOps
    /\ last.ok
    /\ last.diff # {}
    /\ \E d \in Matches(bufs, pool, last.mem) : ~bufs[d].is_available

\* C12 (SpecRun): mark_all_free on a valid pool leaves every initialized
\* descriptor of the array available and changes nothing but availability flags
\* of initialized descriptors of the array, so an uninitialized slot keeps all
\* its fields; on an absent or invalid pool it changes nothing.
C12_MarkAllFreeFrame ==
    (last.op = "buffer_pool_mark_all_free") =>
        IF (last.obj # NULL) /\ buffer_pool_is_valid(pool, PoolAddr)
        THEN /\ \A d \in PoolBufs(pool) : bufs[d].is_initialized => bufs[d].is_available
             /\ \A x \in last.diff :
                   /\ x[1] = "buf"
                   /\ x[3] = "is_available"
                   /\ x[2] \in PoolBufs(pool)
                   /\ bufs[x[2]].is_initialized
             /\ \A d \in BufAddrs : (~bufs[d].is_initialized) => (bufs[d] = ZeroBuffer)
        ELSE last.diff = {}

\* mark_all_free made an in-use descriptor available in an array that has an
\* uninitialized slot too.
C12_Witness ==
    /\ last.op = "buffer_pool_mark_all_free"
    /\ last.diff # {}
    /\ \E d \in PoolBufs(pool) : ~bufs[d].is_initialized

\* C13 (Spec): from zeroed storage, through every sequence of init calls with
\* valid and invalid arguments and of operations, a pool whose initialized flag
\* is set has a count above zero and a descriptor array reference; so has a pool
\* that starts with its flag clear and any array reference and count, after one
\* buffer_pool_init.
C13_PoolInvariant ==
    /\ pool.is_initialized => ((0 < pool.buffer_count) /\ (NULL # pool.buffer_array_sa))
    /\ \A arr \in {NULL, ArrayAddr}, n \in 0..MaxCount, a \in PoolInitArgs :
          LET p2 == buffer_pool_init([buffer_array_sa |-> arr, buffer_count |-> n,
                                      is_initialized |-> FALSE], a[1], a[2], a[3])
          IN  p2.is_initialized =>
                ((0 < p2.buffer_count) /\ (NULL # p2.buffer_array_sa))

\* An initialized pool was given to buffer_pool_init again with an absent array or
\* a zero count.
C13_Witness ==
    /\ pool.is_initialized
    /\ last.op = "buffer_pool_init"
    /\ last.obj # NULL
    /\ (last.n = 0) \/ (last.arr = NULL)

\* C15 (Spec): buffer_pool_init changes fields of the pool only, no descriptor;
\* and while the pool is valid over descriptors that buffer_init never touched,
\* acquire returns NULL, find returns NULL for every pointer, release_by_ptr
\* returns false, and none of them changes a field.
C15_PoolInitLeavesDescriptors ==
    /\ (last.op = "buffer_pool_init") => (\A x \in last.diff : x[1] = "pool")
    /\ ( /\ buffer_pool_is_valid(pool, PoolAddr)
         /\ \A d \in PoolBufs(pool) : bufs[d] = ZeroBuffer )
       => /\ buffer_pool_acquire(bufs, pool, PoolAddr) = [bufs |-> bufs, ret |-> NULL]
          /\ \A m \in MemAddrs :
                /\ buffer_pool_find(bufs, pool, PoolAddr, m) = NULL
                /\ buffer_pool_release_by_ptr(bufs, pool, PoolAddr, m)
                      = [bufs |-> bufs, ret |-> FALSE]
          /\ (last.op \in (PoolOps \ {"buffer_pool_mark_all_free"})) =>
                ((last.ret = NULL) /\ (last.ok = FALSE) /\ (last.diff = {}))

\* buffer_pool_init bound an array of the largest count whose descriptors were
\* never initialized, and the acquire that followed returned NULL.
C15_Witness ==
    /\ last.op = "buffer_pool_acquire"
    /\ last.obj # NULL
    /\ last.ret = NULL
    /\ buffer_pool_is_valid(pool, PoolAddr)
    /\ pool.buffer_count = MaxCount
    /\ \A d \in PoolBufs(pool) : bufs[d] = ZeroBuffer

\* C17 (SpecRun): in an initialized context the backing pointers of the
\* descriptors below the count are present and pairwise distinct; find_by_ptr of
\* memory_block + i * chunk_size returns descriptor i; and for the descriptor d an
\* acquire returned, find_by_ptr of data(d) returns d and release_by_ptr of
\* data(d) returns true and makes d, and no other descriptor, available.
C17_LookupUnambiguous ==
    ctx.is_initialized =>
        LET sa == ctx.buffer_array_sa
            idx == 0..(ctx.buffer_count - 1)
        IN  /\ \A i \in idx : bufs[sa + i].data_u8p # NULL
            /\ \A i, j \in idx :
                  (i # j) => (bufs[sa + i].data_u8p # bufs[sa + j].data_u8p)
            /\ \A i \in idx :
                  buffer_array_find_by_ptr(bufs, pool, ctx, CtxAddr,
                      ctx.memory_block_u8p + (i * ctx.buffer_size)) = sa + i
            /\ ((last.op \in AcquireOps) /\ (last.ret # NULL)) =>
                  LET d == last.ret
                      m == buffer_data(bufs, d).ret
                  IN  /\ buffer_array_find_by_ptr(bufs, pool, ctx, CtxAddr, m) = d
                      /\ buffer_array_release_by_ptr(bufs, pool, ctx, CtxAddr, m)
                            = [bufs |-> [bufs EXCEPT ![d].is_available = TRUE],
                               ret |-> TRUE]

\* The last chunk of the largest context was acquired while the chunks before it
\* were in-use.
C17_Witness ==
    /\ ctx.is_initialized
    /\ ctx.buffer_count = MaxCount
    /\ ctx.buffer_size = MaxSize
    /\ last.op = "buffer_array_acquire"
    /\ last.ret = ctx.buffer_array_sa + (MaxCount - 1)
    /\ \A d \in PoolBufs(pool) : ~bufs[d].is_available

\* The initialized descriptors of the pool whose backing pointer is NULL.
NullBacked(b, p) == {d \in PoolBufs(p) : b[d].is_initialized /\ (b[d].data_u8p = NULL)}

\* C18 (SpecRun): a descriptor initialized with a NULL backing pointer is
\* returned by no find and changed by no release_by_ptr, whatever the pointer;
\* release_by_ptr of its data() returns false; and the only calls that make it
\* available are mark_free and mark_all_free.
C18_NullBackedUnreleasable ==
    \A d \in NullBacked(bufs, pool) :
        /\ buffer_data(bufs, d).ret = NULL
        /\ \A m \in MemAddrs :
              /\ buffer_pool_find(bufs, pool, PoolAddr, m) # d
              /\ buffer_pool_release_by_ptr(bufs, pool, PoolAddr, m).bufs[d] = bufs[d]
        /\ buffer_pool_release_by_ptr(bufs, pool, PoolAddr, buffer_data(bufs, d).ret).ret
              = FALSE
        /\ (last.op \in FindOps) => (last.ret # d)
        /\ ((last.op \in ReleaseOps) /\ (last.mem = NULL)) => (last.ok = FALSE)
        /\ (<<"buf", d, "is_available">> \in last.diff /\ bufs[d].is_available)
              => (last.op \in {"buffer_mark_free", "buffer_pool_mark_all_free"})

\* A descriptor without backing memory was forced free and acquired; the release
\* of its data() returned false and it is still in-use.
C18_Witness ==
    /\ last.op \in ReleaseOps
    /\ last.obj # NULL
    /\ last.mem = NULL
    /\ last.ok = FALSE
    /\ \E d \in NullBacked(bufs, pool) : (loan[d] = "held") /\ ~bufs[d].is_available

\* C19 (SpecRun): an acquire that returns a descriptor changes that descriptor's
\* availability flag and no other field; a release_by_ptr that returns true
\* changes at most the availability flag of the first descriptor with that
\* pointer; an acquire that returns NULL, a release_by_ptr that returns false, a
\* find and a data change nothing.  The fields of the pool and of the context and
\* the other descriptors are so left as they were.
C19_RunTimeFrame ==
    /\ (last.op \in AcquireOps) =>
          (last.diff = IF last.ret # NULL
                       THEN {<<"buf", last.ret, "is_available">>}
                       ELSE {})
    /\ (last.op \in ReleaseOps) =>
          IF last.ok
          THEN last.diff \subseteq
                 {<<"buf", Lowest(Matches(bufs, pool, last.mem)), "is_available">>}
          ELSE last.diff = {}
    /\ (last.op \in (FindOps \cup {"buffer_data"})) => (last.diff = {})

\* A pool set up by hand, without a context: a release through the pool made one
\* descriptor available while another one stayed in-use.
C19_Witness ==
    /\ last.op = "buffer_pool_release_by_ptr"
    /\ last.ok
    /\ last.diff # {}
    /\ ~ctx.is_initialized
    /\ \E d \in PoolBufs(pool) : bufs[d].is_initialized /\ ~bufs[d].is_available

\* The returns of k buffer_array_acquire calls made in a row from the
\* descriptors b.
RECURSIVE AcquireRow(_, _)
AcquireRow(b, k) ==
    IF k = 0
    THEN <<>>
    ELSE LET a == buffer_array_acquire(b, pool, ctx, CtxAddr)
         IN  <<a.ret>> \o AcquireRow(a.bufs, k - 1)

\* C20 (SpecRun): in every state of an initialized context, an acquire that
\* returns d followed at once by release_by_ptr of data(d) returns true and leaves
\* the descriptors as they were before the acquire, so that the next acquire
\* returns d again; and when every chunk has been given back, count acquires in a
\* row return count distinct descriptors.
C20_AcquireReleaseRoundTrip ==
    ctx.is_initialized =>
        LET a == buffer_array_acquire(bufs, pool, ctx, CtxAddr)
            r == buffer_array_release_by_ptr(a.bufs, pool, ctx, CtxAddr,
                                             buffer_data(a.bufs, a.ret).ret)
            row == AcquireRow(bufs, ctx.buffer_count)
        IN  /\ (a.ret # NULL) =>
                  /\ r.ret = TRUE
                  /\ r.bufs = bufs
                  /\ buffer_array_acquire(r.bufs, pool, ctx, CtxAddr).ret = a.ret
            /\ ((last.op = "buffer_array_acquire") /\ (last.ret # NULL)) =>
                  LET back == buffer_array_release_by_ptr(bufs, pool, ctx, CtxAddr,
                                  buffer_data(bufs, last.ret).ret)
                  IN  /\ back.ret = TRUE
                      /\ back.bufs = Before(bufs, last.diff)
                      /\ buffer_array_acquire(back.bufs, pool, ctx, CtxAddr).ret
                            = last.ret
            /\ (\A d \in PoolBufs(pool) : bufs[d].is_available) =>
                  /\ \A i \in 1..ctx.buffer_count : row[i] # NULL
                  /\ \A i, j \in 1..ctx.buffer_count : (i # j) => (row[i] # row[j])

\* The second chunk was acquired while the first was on loan, and was released
\* by its pointer: the next acquire returns it again.
C20_Witness ==
    /\ ctx.is_initialized
    /\ last.op = "buffer_array_release_by_ptr"
    /\ last.ok
    /\ last.diff = {<<"buf", ArrayAddr + 1, "is_available">>}
    /\ loan[ArrayAddr] = "held"
    /\ loan[ArrayAddr + 1] = "back"
    /\ buffer_array_acquire(bufs, pool, ctx, CtxAddr).ret = ArrayAddr + 1

\* C16 (SpecIsr): with one context acquiring and the other releasing only the
\* chunks handed to it, in every interleaving of the test, the write and the
\* release's steps: the descriptor an acquire returned is not in the hands of the
\* releasing context, every chunk in somebody's hands is in-use, and a chunk that
\* was given back is available until an acquire returns it.
C16_HandOffSafe ==
    /\ (procs[Task].pc = "hold") =>
          /\ loan[procs[Task].ret] # "held"
          /\ ~bufs[procs[Task].ret].is_available
    /\ \A d \in BufAddrs :
          /\ (loan[d] = "held") => ~bufs[d].is_available
          /\ (loan[d] = "back") =>
                \/ bufs[d].is_available
                \/ (procs[Task].pc = "hold") /\ (procs[Task].ret = d)
    /\ (procs[Isr].pc = "free") =>
          (procs[Isr].ret = pool.buffer_array_sa + procs[Isr].index)

\* The acquiring context has found the first chunk free again, which was given
\* back, and has not marked it yet, while the release of the last chunk is
\* between its lookup and its write.
C16_Witness ==
    /\ pool.buffer_count = MaxCount
    /\ procs[Task].pc = "mark"
    /\ procs[Task].index = 0
    /\ loan[pool.buffer_array_sa] = "back"
    /\ procs[Isr].pc = "free"
    /\ procs[Isr].index = MaxCount - 1

\* A call of Task is under way.
Busy == procs[Task].pc # "idle"

\* The indexes inspected by the call are 0, 1, 2, ... below the loop's bound,
\* each once; an acquire that got to its loop and returned NULL inspected each
\* descriptor of the pool once.
C14_Bounded ==
    LET seen == procs[Task].seen
    IN  /\ Len(seen) <= LoopCount(last)
        /\ \A i \in 1..Len(seen) : seen[i] = i - 1
        /\ ( /\ ~Busy
             /\ last.op = "buffer_array_acquire"
             /\ Enters(last)
             /\ last.ret = NULL )
           => (Len(seen) = pool.buffer_count)

\* C14 (SpecSteps): every acquire, find, release_by_ptr, mark_all_free and
\* context init inspects each descriptor below its count at most once, and
\* returns whatever the other context does: an acquire that finds no descriptor
\* free returns NULL after one pass, it waits for no release.
C14_RunsToCompletion == ([]C14_Bounded) /\ (Busy ~> ~Busy)

\* An acquire has returned NULL after one pass over a pool of the largest count,
\* and a descriptor it had passed was released by the other context meanwhile.
C14_Witness ==
    /\ ~Busy
    /\ last.op = "buffer_array_acquire"
    /\ Enters(last)
    /\ last.ret = NULL
    /\ pool.buffer_count = MaxCount
    /\ Len(procs[Task].seen) = MaxCount
    /\ \E d \in PoolBufs(pool) : bufs[d].is_available

=============================================================================
